---- MODULE Spec2Model ----
(***************************************************************************)
(* The call envelope of bittensor/protocol.py: TerminalInfo, Synapse and   *)
(* the header codec Synapse.to_headers / Synapse.from_headers.             *)
(*                                                                         *)
(* Python strings are modelled as texts: sequences of tokens.  A token is  *)
(* one character ("0".."9", ".", "-", "+") or an indivisible piece of a    *)
(* string ("axon_", "dendrite_", "port", "None", "Forward", ...).  Texts   *)
(* are tokenised so that every occurrence of "axon_" or "dendrite_" in the *)
(* string is one token and every TerminalInfo field name is one token.     *)
(* The texts used hold no blank, underscore between digits, exponent,      *)
(* "inf" or "nan", so int() and float() accept exactly an optional sign    *)
(* and digits (for float() with at most one point); any other token makes  *)
(* them raise.                                                             *)
(***************************************************************************)
EXTENDS Integers, Sequences, FiniteSets, TLC

VARIABLES phase, syn, last, nassign, hdr, wire, tamper, dec, callee, fill,
          resp, fin, heap, procs

vars == <<phase, syn, last, nassign, hdr, wire, tamper, dec, callee, fill,
          resp, fin, heap, procs>>

seqVars == <<phase, syn, last, nassign, hdr, wire, tamper, dec, callee, fill,
             resp, fin>>

concVars == <<heap, procs>>

\* Number of attribute assignments the caller makes on its Synapse.
MaxAssign == 2

\* Number of from_headers calls in flight at once.
NumDecoders == 2

(***************************************************************************)
(* Python values: None, int, float, str.  A float is the decimal           *)
(* (-1)^neg * m / 10^e with no trailing fractional zero, which is exact    *)
(* for the short decimals used here (repr and float() round-trip them).    *)
(***************************************************************************)
Val(t, neg, m, e, s) == [t |-> t, neg |-> neg, m |-> m, e |-> e, s |-> s]

None == Val("none", FALSE, 0, 0, <<>>)

IntV(neg, m) == Val("int", neg /\ m # 0, m, 0, <<>>)

RECURSIVE NormFloat(_, _, _)
NormFloat(neg, m, e) ==
    IF e > 0 /\ m % 10 = 0 THEN NormFloat(neg, m \div 10, e - 1)
    ELSE Val("float", neg, m, e, <<>>)

FloatV(neg, m, e) == NormFloat(neg, m, e)

StrV(s) == Val("str", FALSE, 0, 0, s)

Raise == [ok |-> FALSE, v |-> None]

Return(v) == [ok |-> TRUE, v |-> v]

Digits == <<"0", "1", "2", "3", "4", "5", "6", "7", "8", "9">>

IsDigit(c) == \E i \in 1..10 : Digits[i] = c

DigitVal(c) == (CHOOSE i \in 1..10 : Digits[i] = c) - 1

AllDigits(ds) == \A i \in 1..Len(ds) : IsDigit(ds[i])

RECURSIVE DigitsValue(_)
DigitsValue(ds) ==
    IF ds = <<>> THEN 0
    ELSE DigitsValue(SubSeq(ds, 1, Len(ds) - 1)) * 10 + DigitVal(ds[Len(ds)])

RECURSIVE NatDigits(_)
NatDigits(n) ==
    IF n < 10 THEN <<Digits[n + 1]>>
    ELSE NatDigits(n \div 10) \o <<Digits[(n % 10) + 1]>>

RECURSIVE Pow10(_)
Pow10(e) == IF e = 0 THEN 1 ELSE 10 * Pow10(e - 1)

RECURSIVE Zeros(_)
Zeros(n) == IF n <= 0 THEN <<>> ELSE <<"0">> \o Zeros(n - 1)

HasSign(txt) == txt # <<>> /\ txt[1] \in {"-", "+"}

Unsigned(txt) == IF HasSign(txt) THEN Tail(txt) ELSE txt

IsNegative(txt) == txt # <<>> /\ txt[1] = "-"

\* Index of the first token of txt equal to tok, 0 when there is none.
IndexOf(txt, tok) ==
    IF \E i \in 1..Len(txt) : txt[i] = tok
    THEN CHOOSE i \in 1..Len(txt) :
            txt[i] = tok /\ \A j \in 1..(i - 1) : txt[j] # tok
    ELSE 0

\* int(text): an optional sign and at least one digit.
int_of_text(txt) ==
    LET body == Unsigned(txt)
    IN  IF body # <<>> /\ AllDigits(body)
        THEN Return(IntV(IsNegative(txt), DigitsValue(body)))
        ELSE Raise

\* float(text): an optional sign, digits with at most one point, at least
\* one digit on one side of the point.
float_of_text(txt) ==
    LET body == Unsigned(txt)
        dot  == IndexOf(body, ".")
        ip   == IF dot = 0 THEN body ELSE SubSeq(body, 1, dot - 1)
        fp   == IF dot = 0 THEN <<>> ELSE SubSeq(body, dot + 1, Len(body))
    IN  IF AllDigits(ip) /\ AllDigits(fp) /\ (ip # <<>> \/ fp # <<>>)
        THEN Return(FloatV(IsNegative(txt), DigitsValue(ip \o fp), Len(fp)))
        ELSE Raise

\* int(x) of a Python value.
py_int(raw) ==
    CASE raw.t = "int"   -> Return(raw)
      [] raw.t = "float" -> Return(IntV(raw.neg, raw.m \div Pow10(raw.e)))
      [] raw.t = "str"   -> int_of_text(raw.s)
      [] OTHER           -> Raise

\* float(x) of a Python value.
py_float(raw) ==
    CASE raw.t = "float" -> Return(raw)
      [] raw.t = "int"   -> Return(FloatV(raw.neg, raw.m, 0))
      [] raw.t = "str"   -> float_of_text(raw.s)
      [] OTHER           -> Raise

\* str(x) of a Python value: integers in base 10, floats as repr prints
\* them (always with a fractional part), strings verbatim, None as "None".
py_str(v) ==
    CASE v.t = "none" -> <<"None">>
      [] v.t = "str"  -> v.s
      [] v.t = "int"  -> (IF v.neg THEN <<"-">> ELSE <<>>) \o NatDigits(v.m)
      [] OTHER ->
            LET ds  == NatDigits(v.m)
                pad == Zeros(v.e + 1 - Len(ds)) \o ds
                ip  == SubSeq(pad, 1, Len(pad) - v.e)
                fp  == IF v.e = 0 THEN <<"0">>
                       ELSE SubSeq(pad, Len(pad) - v.e + 1, Len(pad))
            IN  (IF v.neg THEN <<"-">> ELSE <<>>) \o ip \o <<".">> \o fp

cast_int(raw) == IF raw # None THEN py_int(raw) ELSE Return(raw)

cast_float(raw) == IF raw # None THEN py_float(raw) ELSE Return(raw)

\* pydantic's validation of Optional[str]: None stays, a str stays, a
\* number is turned into its text.
validate_str(raw) ==
    IF raw = None THEN Return(None) ELSE Return(StrV(py_str(raw)))

\* pydantic's validation of Optional[float] (Synapse.timeout has no
\* pre-validator of its own).
validate_float(raw) == IF raw = None THEN Return(None) ELSE py_float(raw)

(***************************************************************************)
(* TerminalInfo                                                            *)
(***************************************************************************)
FieldNames ==
    <<"status_code", "status_message", "process_time", "ip", "port",
      "version", "nonce", "uuid", "hotkey", "signature">>

FieldSet == {FieldNames[i] : i \in 1..Len(FieldNames)}

FieldType(f) ==
    CASE f \in {"status_code", "port", "version", "nonce"} -> "int"
      [] f = "process_time" -> "float"
      [] OTHER -> "str"

\* The validators of one TerminalInfo field: the pre-validator, then the
\* declared Optional type.
validate_field(f, raw) ==
    CASE FieldType(f) = "int"   -> cast_int(raw)
      [] FieldType(f) = "float" -> cast_float(raw)
      [] OTHER                  -> validate_str(raw)

\* TerminalInfo(): every field at its default None.
TerminalInfo == [f \in FieldSet |-> None]

\* setattr(terminal, k, raw) under validate_assignment: k is the text of
\* the attribute name.  An unknown name or a failed validator raises and
\* leaves the record as it was.
terminal_setattr(ti, k, raw) ==
    IF Len(k) = 1 /\ k[1] \in FieldSet
    THEN LET r == validate_field(k[1], raw)
         IN  IF r.ok THEN [ok |-> TRUE, ti |-> [ti EXCEPT ![k[1]] = r.v]]
             ELSE [ok |-> FALSE, ti |-> ti]
    ELSE [ok |-> FALSE, ti |-> ti]

(***************************************************************************)
(* Synapse                                                                 *)
(***************************************************************************)
DefaultTimeout == FloatV(FALSE, 12, 0)

\* The root validator: whatever the values hold, name becomes the name of
\* the class being validated.
set_name_type_keep(cls, values) == values

set_name_type(cls, values) == [values EXCEPT !.name = StrV(<<cls>>)]

\* The values before validation: the declared defaults.
SynapseDefaults(cls) ==
    [cls |-> cls, name |-> None, timeout |-> DefaultTimeout,
     dendrite |-> TerminalInfo, axon |-> TerminalInfo]

\* cls(timeout = t, dendrite = d, axon = a): the root validator, then the
\* fields.  The terminals given are TerminalInfo instances.
Synapse(cls, t, d, a) ==
    LET vals == set_name_type(cls, SynapseDefaults(cls))
        rt   == validate_float(t)
    IN  [ok  |-> rt.ok,
         syn |-> [vals EXCEPT !.timeout = rt.v, !.dendrite = d, !.axon = a]]

\* synapse.<attr> = raw under validate_assignment: the root validator runs
\* on the new values, then the assigned field is validated and stored.
synapse_setattr(s, attr, raw) ==
    LET vals == set_name_type(s.cls, s)
    IN  CASE attr = "name" ->
               LET r == validate_str(raw)
               IN  IF r.ok THEN [ok |-> TRUE, syn |-> [vals EXCEPT !.name = r.v]]
                   ELSE [ok |-> FALSE, syn |-> s]
          [] attr = "timeout" ->
               LET r == validate_float(raw)
               IN  IF r.ok THEN [ok |-> TRUE, syn |-> [vals EXCEPT !.timeout = r.v]]
                   ELSE [ok |-> FALSE, syn |-> s]
          [] OTHER -> [ok |-> FALSE, syn |-> s]

\* synapse.axon = ti / synapse.dendrite = ti, ti a TerminalInfo instance.
synapse_set_terminal(s, attr, ti) ==
    LET vals == set_name_type(s.cls, s)
    IN  IF attr = "axon" THEN [vals EXCEPT !.axon = ti]
        ELSE [vals EXCEPT !.dendrite = ti]

(***************************************************************************)
(* Header maps: a dict, kept as the sequence of its <<key, value>> items   *)
(* in insertion order, keys unique.                                        *)
(***************************************************************************)
Keys(h) == {h[i][1] : i \in 1..Len(h)}

HasKey(h, k) == k \in Keys(h)

KeyIndex(h, k) == CHOOSE i \in 1..Len(h) : h[i][1] = k

\* headers.get(k, None)
Get(h, k) == IF HasKey(h, k) THEN StrV(h[KeyIndex(h, k)][2]) ELSE None

\* headers[k] = v
Put(h, k, v) ==
    IF HasKey(h, k) THEN [h EXCEPT ![KeyIndex(h, k)] = <<k, v>>]
    ELSE Append(h, <<k, v>>)

\* del headers[k]
RECURSIVE Del(_, _)
Del(h, k) ==
    IF h = <<>> THEN <<>>
    ELSE IF h[1][1] = k THEN Del(Tail(h), k)
    ELSE <<h[1]>> \o Del(Tail(h), k)

\* headers.update(other)
RECURSIVE Update(_, _)
Update(h, other) ==
    IF other = <<>> THEN h
    ELSE Update(Put(h, other[1][1], other[1][2]), Tail(other))

\* The dict as a set of items: dict equality does not look at the order.
Items(h) == {h[i] : i \in 1..Len(h)}

\* { prefix + k : str(v) for k, v in ti.dict().items() if v != None }
RECURSIVE terminal_items_all(_, _, _)
terminal_items_all(prefix, ti, i) ==
    IF i > Len(FieldNames) THEN <<>>
    ELSE <<<<(<<prefix, FieldNames[i]>>), py_str(ti[FieldNames[i]])>>>>
            \o terminal_items_all(prefix, ti, i + 1)

RECURSIVE terminal_items(_, _, _)
terminal_items(prefix, ti, i) ==
    IF i > Len(FieldNames) THEN <<>>
    ELSE (IF ti[FieldNames[i]] # None
          THEN <<<<(<<prefix, FieldNames[i]>>), py_str(ti[FieldNames[i]])>>>>
          ELSE <<>>)
            \o terminal_items(prefix, ti, i + 1)

\* Synapse.to_headers: the values are re-validated as a base Synapse, whose
\* name and timeout head the dict, then the set axon and dendrite fields.
to_headers(s) ==
    LET base_class == Synapse("Synapse", s.timeout, s.dendrite, s.axon).syn
        headers == << <<(<<"name">>), py_str(base_class.name)>>,
                      <<(<<"timeout">>), py_str(base_class.timeout)>> >>
    IN  Update(Update(headers, terminal_items("axon_", base_class.axon, 1)),
               terminal_items("dendrite_", base_class.dendrite, 1))

\* k.split(sep): whether it has an item [1], and that item (the text
\* between the first and the second occurrence of sep).
SplitHas1(k, sep) == IndexOf(k, sep) # 0

Split1(k, sep) ==
    LET rest == SubSeq(k, IndexOf(k, sep) + 1, Len(k))
        nxt  == IndexOf(rest, sep)
    IN  IF nxt = 0 THEN rest ELSE SubSeq(rest, 1, nxt - 1)

\* One pass of the loop of from_headers over the item (k, v), on the
\* records the Synapse's axon and dendrite attributes refer to (cells[a]
\* and cells[d]).  Each try rebinds k before its setattr, and every
\* exception is passed over.
decode_cells(cells, a, d, k, v) ==
    LET k1 == IF SplitHas1(k, "axon_") THEN Split1(k, "axon_") ELSE k
        c1 == IF SplitHas1(k, "axon_")
              THEN [cells EXCEPT ![a] = terminal_setattr(cells[a], k1, StrV(v)).ti]
              ELSE cells
        k2 == IF SplitHas1(k1, "dendrite_") THEN Split1(k1, "dendrite_") ELSE k1
    IN  IF SplitHas1(k1, "dendrite_")
        THEN [c1 EXCEPT ![d] = terminal_setattr(c1[d], k2, StrV(v)).ti]
        ELSE c1

\* The same pass on a Synapse that owns its two terminals.
decode_item(s, k, v) ==
    LET c == decode_cells(<<s.axon, s.dendrite>>, 1, 2, k, v)
    IN  [s EXCEPT !.axon = c[1], !.dendrite = c[2]]

RECURSIVE decode_items(_, _, _)
decode_items(s, headers, i) ==
    IF i > Len(headers) THEN s
    ELSE decode_items(decode_item(s, headers[i][1], headers[i][2]), headers, i + 1)

\* No Synapse: what a call that raised leaves its caller with.
NoSynapse == [SynapseDefaults("") EXCEPT !.timeout = None]

\* The outcome of a from_headers call: whether it raised, the Synapse it
\* returned, how many items its loop went through, and the per-field
\* errors handed to the caller (the code hands over none).
Outcome(raised, s, iters) ==
    [raised |-> raised, syn |-> s, iters |-> iters, errors |-> {}]

\* The head of from_headers: a fresh base Synapse, its timeout and name.
decode_head(headers) ==
    LET synapse == Synapse("Synapse", DefaultTimeout, TerminalInfo, TerminalInfo).syn
        t  == py_float(Get(headers, <<"timeout">>))
        s1 == synapse_setattr(synapse, "timeout", t.v).syn
        s2 == synapse_setattr(s1, "name", Get(headers, <<"name">>)).syn
    IN  [ok |-> t.ok, syn |-> IF t.ok THEN s2 ELSE NoSynapse]

from_headers_default_timeout(headers) ==
    LET h == decode_head(Put(headers, <<"timeout">>, <<"1", "2", ".", "0">>))
    IN  IF decode_head(headers).ok
        THEN Outcome(FALSE, decode_items(decode_head(headers).syn, headers, 1),
                     Len(headers))
        ELSE Outcome(FALSE, decode_items(h.syn, headers, 1), Len(headers))

\* Synapse.from_headers
from_headers(headers) ==
    LET h == decode_head(headers)
    IN  IF ~h.ok THEN Outcome(TRUE, NoSynapse, 0)
        ELSE Outcome(FALSE, decode_items(h.syn, headers, 1), Len(headers))

\* A field default of the Synapse model: each new instance gets its own
\* copy of the TerminalInfo() the class body built (heap[ref]).
field_default_shared(h, ref) == [heap |-> h, ref |-> ref]

field_default(h, ref) == [heap |-> Append(h, h[ref]), ref |-> Len(h) + 1]

\* Where the class body's two defaults live: dendrite, then axon.
DendriteDefault == 1

AxonDefault == 2

(***************************************************************************)
(* The inputs: concrete call types, values and terminals.                  *)
(***************************************************************************)
\* The base type and one concrete call type, class Forward(Synapse).
Classes == {"Synapse", "Forward"}

\* TerminalInfo(**kw): each keyword goes through its field's validators.
TerminalInfoOf(kw) ==
    [f \in FieldSet |-> IF f \in DOMAIN kw THEN validate_field(f, kw[f]).v ELSE None]

HotkeyNonce ==
    TerminalInfoOf([hotkey |-> StrV(<<"5Enj">>),
                    nonce |-> IntV(FALSE, 111111)])

IpPort ==
    TerminalInfoOf([ip |-> StrV(<<"198.123.23.1">>), port |-> IntV(FALSE, 9282)])

FullTerminal ==
    TerminalInfoOf([status_code |-> IntV(FALSE, 200),
                    status_message |-> StrV(<<"Success">>),
                    process_time |-> FloatV(FALSE, 1, 1),
                    ip |-> StrV(<<"198.123.23.1">>),
                    port |-> IntV(FALSE, 9282),
                    version |-> IntV(FALSE, 111),
                    nonce |-> IntV(FALSE, 111111),
                    uuid |-> StrV(<<"5ecbd69c">>),
                    hotkey |-> StrV(<<"5Enj">>),
                    signature |-> StrV(<<"0x0813">>)])

\* <<dendrite, axon>> a call is constructed with.
TerminalPairs ==
    {<<TerminalInfo, TerminalInfo>>, <<TerminalInfo, HotkeyNonce>>,
     <<IpPort, TerminalInfo>>, <<FullTerminal, FullTerminal>>}

TimeoutInputs == {DefaultTimeout, FloatV(FALSE, 15, 1), None}

NameInputs == {StrV(<<"Forward">>), StrV(<<"Other">>), None}

TimeoutAssigns == {FloatV(FALSE, 15, 1), IntV(FALSE, 3), None, StrV(<<"x">>)}

\* <<attribute name, raw value>> assigned on a terminal.
FieldAssigns ==
    {<<(<<"port">>), IntV(FALSE, 80)>>, <<(<<"port">>), StrV(<<"x">>)>>,
     <<(<<"nonce">>), None>>, <<(<<"status_code">>), IntV(FALSE, 0)>>,
     <<(<<"ip">>), StrV(<<>>)>>, <<(<<"bogus">>), IntV(FALSE, 1)>>}

\* What the transport may do to the header map between the two peers.
Tamperings ==
    {[kind |-> "none", k |-> <<>>, v |-> <<>>],
     [kind |-> "del", k |-> <<"timeout">>, v |-> <<>>],
     [kind |-> "put", k |-> <<"timeout">>, v |-> <<"x">>],
     [kind |-> "put", k |-> <<"axon_", "port">>, v |-> <<"x">>],
     [kind |-> "put", k |-> <<"dendrite_", "nonce">>, v |-> <<"1", ".", "5">>],
     [kind |-> "put", k |-> <<"axon_", "port">>, v |-> <<"9", "9">>],
     [kind |-> "put", k |-> <<"foo_bar">>, v |-> <<"baz">>],
     [kind |-> "put", k |-> <<"x_", "axon_", "port">>, v |-> <<"9", "9">>],
     [kind |-> "put", k |-> <<"axon_", "dendrite_", "ip">>, v |-> <<"10.0.0.1">>],
     [kind |-> "put", k |-> <<"dendrite_", "axon_", "port">>, v |-> <<"9", "9">>],
     [kind |-> "put", k |-> <<"axon_", "bogus">>, v |-> <<"1">>],
     [kind |-> "put", k |-> <<"dendrite_", "axon_", "bogus">>, v |-> <<"1">>]}

NoTamper == [kind |-> "none", k |-> <<>>, v |-> <<>>]

\* What the callee writes on its axon terminal while it processes a call.
Fills ==
    {<<(<<"none">>), None>>, <<(<<"status_code">>), IntV(FALSE, 200)>>,
     <<(<<"process_time">>), FloatV(FALSE, 5, 1)>>}

NoAssign == [op |-> "", attr |-> <<>>, raw |-> None, ok |-> TRUE]

NoOutcome == Outcome(FALSE, NoSynapse, 0)

\* The call's state after the callee's decode.
PhaseAfterDecode(outcome) == IF outcome.raised THEN "REJECTED" ELSE "RECEIVED"

(***************************************************************************)
(* One call, from the caller's constructor to the decoded response.        *)
(***************************************************************************)
Init ==
    /\ phase = "NEW"
    /\ syn = NoSynapse
    /\ last = NoAssign
    /\ nassign = 0
    /\ hdr = <<>>
    /\ wire = <<>>
    /\ tamper = NoTamper
    /\ dec = NoOutcome
    /\ callee = NoSynapse
    /\ fill = <<(<<"none">>), None>>
    /\ resp = <<>>
    /\ fin = NoOutcome
    /\ heap = <<TerminalInfo, TerminalInfo>>
    /\ procs = [p \in 1..NumDecoders |->
                  [pc |-> "idle", headers |-> <<>>, idx |-> 0, name |-> None,
                   timeout |-> None, dendrite |-> 0, axon |-> 0]]

\* The caller constructs the call: cls(timeout = t, dendrite = d, axon = a).
Construct ==
    /\ phase = "NEW"
    /\ \E cls \in Classes, t \in TimeoutInputs, da \in TerminalPairs :
          /\ syn' = Synapse(cls, t, da[1], da[2]).syn
          /\ last' = [op |-> "construct", attr |-> <<>>, raw |-> t, ok |-> TRUE]
    /\ phase' = "CREATED"
    /\ UNCHANGED <<nassign, hdr, wire, tamper, dec, callee, fill, resp, fin>>
    /\ UNCHANGED concVars

\* synapse.name = v
SetName ==
    /\ phase = "CREATED" /\ nassign < MaxAssign
    /\ \E v \in NameInputs :
          LET r == synapse_setattr(syn, "name", v)
          IN  /\ syn' = r.syn
              /\ last' = [op |-> "name", attr |-> <<>>, raw |-> v, ok |-> r.ok]
    /\ nassign' = nassign + 1
    /\ UNCHANGED <<phase, hdr, wire, tamper, dec, callee, fill, resp, fin>>
    /\ UNCHANGED concVars

\* synapse.timeout = v
SetTimeout ==
    /\ phase = "CREATED" /\ nassign < MaxAssign
    /\ \E v \in TimeoutAssigns :
          LET r == synapse_setattr(syn, "timeout", v)
          IN  /\ syn' = r.syn
              /\ last' = [op |-> "timeout", attr |-> <<>>, raw |-> v, ok |-> r.ok]
    /\ nassign' = nassign + 1
    /\ UNCHANGED <<phase, hdr, wire, tamper, dec, callee, fill, resp, fin>>
    /\ UNCHANGED concVars

\* synapse.axon = ti, synapse.dendrite = ti
SetTerminal ==
    /\ phase = "CREATED" /\ nassign < MaxAssign
    /\ \E attr \in {"axon", "dendrite"}, ti \in {TerminalInfo, IpPort} :
          /\ syn' = synapse_set_terminal(syn, attr, ti)
          /\ last' = [op |-> attr, attr |-> <<>>, raw |-> None, ok |-> TRUE]
    /\ nassign' = nassign + 1
    /\ UNCHANGED <<phase, hdr, wire, tamper, dec, callee, fill, resp, fin>>
    /\ UNCHANGED concVars

\* synapse.axon.<k> = raw, synapse.dendrite.<k> = raw
SetField ==
    /\ phase = "CREATED" /\ nassign < MaxAssign
    /\ \E term \in {"axon", "dendrite"}, kv \in FieldAssigns :
          LET r == terminal_setattr(syn[term], kv[1], kv[2])
          IN  /\ syn' = [syn EXCEPT ![term] = r.ti]
              /\ last' = [op |-> "field", attr |-> <<term>> \o kv[1],
                          raw |-> kv[2], ok |-> r.ok]
    /\ nassign' = nassign + 1
    /\ UNCHANGED <<phase, hdr, wire, tamper, dec, callee, fill, resp, fin>>
    /\ UNCHANGED concVars

\* The caller encodes the call and hands the headers to the transport.
Encode ==
    /\ phase = "CREATED"
    /\ hdr' = to_headers(syn)
    /\ phase' = "SENT"
    /\ UNCHANGED <<syn, last, nassign, wire, tamper, dec, callee, fill, resp, fin>>
    /\ UNCHANGED concVars

\* The transport delivers a header map to the callee: the one encoded, or
\* that one with a header added, replaced or missing.
Deliver ==
    /\ phase = "SENT"
    /\ \E t \in Tamperings :
          /\ tamper' = t
          /\ wire' = CASE t.kind = "put" -> Put(hdr, t.k, t.v)
                       [] t.kind = "del" -> Del(hdr, t.k)
                       [] OTHER -> hdr
    /\ phase' = "DELIVERED"
    /\ UNCHANGED <<syn, last, nassign, hdr, dec, callee, fill, resp, fin>>
    /\ UNCHANGED concVars

\* The callee decodes the headers it received.
Decode ==
    /\ phase = "DELIVERED"
    /\ dec' = from_headers(wire)
    /\ callee' = dec'.syn
    /\ phase' = PhaseAfterDecode(dec')
    /\ UNCHANGED <<syn, last, nassign, hdr, wire, tamper, fill, resp, fin>>
    /\ UNCHANGED concVars

\* The callee processes the call and may fill a field of its axon terminal.
Process ==
    /\ phase = "RECEIVED"
    /\ \E kv \in Fills :
          /\ fill' = kv
          /\ callee' = [callee EXCEPT
                          !.axon = terminal_setattr(callee.axon, kv[1], kv[2]).ti]
    /\ phase' = "PROCESSED"
    /\ UNCHANGED <<syn, last, nassign, hdr, wire, tamper, dec, resp, fin>>
    /\ UNCHANGED concVars

\* The callee encodes its Synapse again and responds.
Respond ==
    /\ phase = "PROCESSED"
    /\ resp' = to_headers(callee)
    /\ phase' = "RESPONDED"
    /\ UNCHANGED <<syn, last, nassign, hdr, wire, tamper, dec, callee, fill, fin>>
    /\ UNCHANGED concVars

\* The caller decodes the response.
Complete ==
    /\ phase = "RESPONDED"
    /\ fin' = from_headers(resp)
    /\ phase' = "COMPLETED"
    /\ UNCHANGED <<syn, last, nassign, hdr, wire, tamper, dec, callee, fill, resp>>
    /\ UNCHANGED concVars

Next == Construct \/ Encode \/ Deliver \/ Decode \/ Process \/ Respond \/ Complete

Spec == Init /\ [][Next]_vars

\* The caller's side alone: constructor, assignments, encode.
NextCaller == Construct \/ SetName \/ SetTimeout \/ SetTerminal \/ SetField \/ Encode

SpecCaller == Init /\ [][NextCaller]_vars

(***************************************************************************)
(* Several from_headers calls in flight at once, one loop pass at a time.  *)
(* heap holds every TerminalInfo record; a Synapse refers to its two.      *)
(***************************************************************************)
HeadersA == to_headers(Synapse("Forward", DefaultTimeout, TerminalInfo, HotkeyNonce).syn)

HeadersB ==
    Put(to_headers(Synapse("Synapse", FloatV(FALSE, 15, 1), IpPort, TerminalInfo).syn),
        <<"x_", "axon_", "port">>, <<"9", "9">>)

HeadersC == Del(HeadersA, <<"timeout">>)

HeadersD ==
    << <<(<<"timeout">>), <<"3">>>>,
       <<(<<"axon_", "dendrite_", "ip">>), <<"10.0.0.1">>>>,
       <<(<<"dendrite_", "port">>), <<"x">>>> >>

ConcHeaders == {HeadersA, HeadersB, HeadersC, HeadersD}

\* The Synapse a decoder holds, read through its references.
View(p) ==
    [cls |-> "Synapse", name |-> procs[p].name, timeout |-> procs[p].timeout,
     dendrite |-> heap[procs[p].dendrite], axon |-> heap[procs[p].axon]]

\* synapse = Synapse(); its timeout and name are set, or float() raises.
Begin(p) ==
    /\ procs[p].pc = "idle"
    /\ \E H \in ConcHeaders :
          LET d == field_default(heap, DendriteDefault)
              a == field_default(d.heap, AxonDefault)
              h == decode_head(H)
          IN  /\ heap' = a.heap
              /\ procs' = [procs EXCEPT ![p] =
                    [pc |-> IF h.ok THEN "loop" ELSE "raised", headers |-> H,
                     idx |-> 1, name |-> h.syn.name, timeout |-> h.syn.timeout,
                     dendrite |-> d.ref, axon |-> a.ref]]
    /\ UNCHANGED seqVars

\* One pass of the loop.
Step(p) ==
    /\ procs[p].pc = "loop"
    /\ procs[p].idx <= Len(procs[p].headers)
    /\ heap' = decode_cells(heap, procs[p].axon, procs[p].dendrite,
                            procs[p].headers[procs[p].idx][1],
                            procs[p].headers[procs[p].idx][2])
    /\ procs' = [procs EXCEPT ![p].idx = @ + 1]
    /\ UNCHANGED seqVars

\* return synapse
Finish(p) ==
    /\ procs[p].pc = "loop"
    /\ procs[p].idx > Len(procs[p].headers)
    /\ procs' = [procs EXCEPT ![p].pc = "done"]
    /\ UNCHANGED heap
    /\ UNCHANGED seqVars

NextConc == \E p \in 1..NumDecoders : Begin(p) \/ Step(p) \/ Finish(p)

SpecConc == Init /\ [][NextConc]_vars

(***************************************************************************)
(* Properties                                                              *)
(***************************************************************************)
Decoded == phase \in {"RECEIVED", "REJECTED", "PROCESSED", "RESPONDED", "COMPLETED"}

SameSynapse(a, b) ==
    /\ a.name = b.name
    /\ a.timeout = b.timeout
    /\ a.axon = b.axon
    /\ a.dendrite = b.dendrite

FullyPopulated(ti) == \A f \in FieldSet : ti[f] # None

\* The header map a Synapse is to encode to: its own name, the text of its
\* timeout, and one item per set field of each terminal.
ExpectedItems(s) ==
    {<<(<<"name">>), s.name.s>>, <<(<<"timeout">>), py_str(s.timeout)>>}
      \cup {<<(<<"axon_", f>>), py_str(s.axon[f])>> : f \in {g \in FieldSet : s.axon[g] # None}}
      \cup {<<(<<"dendrite_", f>>), py_str(s.dendrite[f])>> :
                f \in {g \in FieldSet : s.dendrite[g] # None}}

\* The transport added one header the encoded map did not hold, and the
\* encoded map decodes.
AddedHeader ==
    /\ Decoded
    /\ tamper.kind = "put"
    /\ ~HasKey(hdr, tamper.k)
    /\ ~from_headers(hdr).raised

\* C1: a Synapse with every axon and dendrite field populated comes back
\* from from_headers(to_headers(S)) with its name, its timeout and every
\* terminal field (stated here for the Synapses whose timeout is set).
C1_RoundTrip ==
    (Decoded /\ tamper = NoTamper /\ syn.timeout # None
        /\ FullyPopulated(syn.axon) /\ FullyPopulated(syn.dendrite))
    => (~dec.raised /\ SameSynapse(dec.syn, syn))

\* C2: to_headers(S) is exactly name = S.name, timeout = text of S.timeout
\* and one item per set terminal field; the name header is the route name
\* of S's concrete call type.
C2_EncodeOutput ==
    phase = "SENT"
    => (/\ Items(hdr) = ExpectedItems(syn)
        /\ Get(hdr, <<"name">>) = StrV(<<syn.cls>>))

\* C3: when the timeout header is absent or does not parse as a float,
\* from_headers raises, returns no Synapse and has gone through no item of
\* its loop, and the call is REJECTED (so it is never PROCESSED).
C3_MandatoryTimeout ==
    (Decoded /\ (~HasKey(wire, <<"timeout">>)
                    \/ ~float_of_text(Get(wire, <<"timeout">>).s).ok))
    => (/\ dec.raised
        /\ dec.syn = NoSynapse
        /\ dec.iters = 0
        /\ phase = "REJECTED")

C3_Witness ==
    /\ phase = "REJECTED"
    /\ ~HasKey(wire, <<"timeout">>)
    /\ \E k \in Keys(wire) : k[1] = "axon_"

\* C4: when one numeric terminal header holds a text that is no number,
\* the decode hands its caller an error for that one header, and every
\* other field is populated as without it.
C4_FieldIsolation ==
    (/\ Decoded
     /\ tamper.kind = "put"
     /\ ~from_headers(Del(hdr, tamper.k)).raised
     /\ Len(tamper.k) = 2
     /\ tamper.k[1] \in {"axon_", "dendrite_"}
     /\ tamper.k[2] \in FieldSet
     /\ FieldType(tamper.k[2]) \in {"int", "float"}
     /\ ~validate_field(tamper.k[2], StrV(tamper.v)).ok)
    => (/\ dec.errors = {tamper.k}
        /\ \A f \in FieldSet :
              /\ (tamper.k # <<"axon_", f>>
                    => dec.syn.axon[f] = from_headers(hdr).syn.axon[f])
              /\ (tamper.k # <<"dendrite_", f>>
                    => dec.syn.dendrite[f] = from_headers(hdr).syn.dendrite[f]))

\* C5: a header whose key starts with neither "axon_" nor "dendrite_" (and
\* is neither name nor timeout) changes nothing: the decode succeeds and
\* equals the decode without it.
C5_UnknownPrefixTolerance ==
    (AddedHeader /\ tamper.k[1] \notin {"axon_", "dendrite_"}
        /\ tamper.k \notin {<<"name">>, <<"timeout">>})
    => (~dec.raised /\ SameSynapse(dec.syn, from_headers(hdr).syn))

\* C6: a header map that to_headers produced decodes, and encoding the
\* decoded Synapse gives the same map again.
C6_Idempotence ==
    /\ (Decoded /\ tamper = NoTamper) => ~dec.raised
    /\ (phase = "RESPONDED" /\ tamper = NoTamper /\ fill[2] = None)
          => Items(resp) = Items(hdr)

\* C7: a terminal field that is unset on the Synapse has no header in
\* to_headers(S).
C7_Omission ==
    phase = "SENT"
    => \A f \in FieldSet :
          /\ (syn.axon[f] = None => ~HasKey(hdr, <<"axon_", f>>))
          /\ (syn.dendrite[f] = None => ~HasKey(hdr, <<"dendrite_", f>>))

C7_Witness ==
    /\ phase = "SENT"
    /\ last.op = "field" /\ last.raw = None /\ last.ok
    /\ \E f \in FieldSet : syn.axon[f] # None
    /\ syn.axon["nonce"] = None

C9_PrefixRule ==
    AddedHeader
    => LET base == from_headers(hdr).syn
           k    == tamper.k
           others(a, b) == \A f \in FieldSet : (k # <<k[1], f>>) => a[f] = b[f]
       IN  /\ ~dec.raised
           /\ k[1] = "axon_" =>
                (dec.syn.dendrite = base.dendrite /\ others(dec.syn.axon, base.axon))
           /\ k[1] = "dendrite_" =>
                (dec.syn.axon = base.axon /\ others(dec.syn.dendrite, base.dendrite))
           /\ k[1] \notin {"axon_", "dendrite_"} =>
                (dec.syn.axon = base.axon /\ dec.syn.dendrite = base.dendrite)

Started(p) == procs[p].pc # "idle"

\* C10: each from_headers call works on records of its own: at every point
\* of every interleaving a call's Synapse is what its own header map alone
\* gives, no record is shared between two calls or between the axon and
\* the dendrite of one, and the class's defaults are never written.
C10_DecodeIndependence ==
    /\ heap[DendriteDefault] = TerminalInfo /\ heap[AxonDefault] = TerminalInfo
    /\ \A p \in 1..NumDecoders :
          Started(p) =>
            /\ procs[p].axon # procs[p].dendrite
            /\ {procs[p].axon, procs[p].dendrite} \cap {DendriteDefault, AxonDefault} = {}
            /\ (procs[p].pc = "raised") = from_headers(procs[p].headers).raised
            /\ procs[p].pc \in {"loop", "done"} =>
                  View(p) = decode_items(decode_head(procs[p].headers).syn,
                                SubSeq(procs[p].headers, 1, procs[p].idx - 1), 1)
            /\ procs[p].pc = "done" => View(p) = from_headers(procs[p].headers).syn
    /\ \A p, q \in 1..NumDecoders :
          (p # q /\ Started(p) /\ Started(q)) =>
             {procs[p].axon, procs[p].dendrite} \cap {procs[q].axon, procs[q].dendrite} = {}

C10_Witness ==
    \E p, q \in 1..NumDecoders :
       /\ p # q
       /\ procs[p].pc = "loop" /\ procs[p].idx > 2 /\ procs[p].idx <= Len(procs[p].headers)
       /\ procs[q].pc = "loop" /\ procs[q].idx > 2 /\ procs[q].idx <= Len(procs[q].headers)
       /\ procs[p].headers # procs[q].headers
       /\ View(p).axon # View(q).axon

====
